---- MODULE Spec2Model ----
(***************************************************************************)
(* A model of tsh.c: the shell's main line (eval), its three signal        *)
(* handlers, the job table they share, and the child processes they fork,  *)
(* signal and reap.  One shell process; its contexts are the main line and *)
(* a stack of interrupted handler frames; the signal mask decides which    *)
(* pending signal may be delivered on top of the running context.          *)
(***************************************************************************)
EXTENDS Integers, Sequences, FiniteSets, TLC

\* Bounds of the model.
MaxPid == 3          \* children forked during one run (pids 1..MaxPid)
MaxJobs == 2         \* capacity of the job table

Pids == 1..MaxPid
Jids == 1..MaxJobs

\* The signals the shell installs handlers for (main, lines 126-128).
Sigs == {"SIGCHLD", "SIGINT", "SIGTSTP"}

\* sigfillset(&mask_all): every signal of the model.
AllSigs == Sigs

VARIABLES
    pc,        \* position of the main line (main's loop and eval)
    pid,       \* eval's local pid
    prev_all,  \* eval's local prev_all
    saved,     \* the mask sigsuspend restores when it returns
    mask,      \* the signal mask of the shell process
    pending,   \* signals pending for the shell
    jobs,      \* the job table: jid -> [pid, state]
    child,     \* the life of each child process
    hstack,    \* the handler frames, innermost last
    raced,     \* a job-table access happened with a signal unblocked
    lastKill,  \* the kill() made by the shell's latest step, if it made one
    cpc,       \* position of one command's file and program handling
    builtin,   \* token.builtin of that command
    infile,    \* token.infile: NULL, or a file and the errno open() leaves for it
    outfile,   \* token.outfile, likewise
    exe,       \* the errno execve() of token.argv[0] leaves (0: the program runs)
    msgs,      \* what the command has printed with sio_printf
    created    \* the modes passed to open() with O_CREAT

\* The shell and its children.
svars == <<pc, pid, prev_all, saved, mask, pending, jobs, child, hstack, raced,
           lastKill>>

\* One command's redirections and program.
lvars == <<cpc, builtin, infile, outfile, exe, msgs, created>>

vars == <<pc, pid, prev_all, saved, mask, pending, jobs, child, hstack, raced,
          lastKill, cpc, builtin, infile, outfile, exe, msgs, created>>

----------------------------------------------------------------------------
\* The job table (tsh_helper): a fixed number of slots, UNDEF marks a free one.

EmptyJob == [pid |-> 0, state |-> "UNDEF"]

Live(J) == {j \in Jids : J[j].state # "UNDEF"}

Min(S) == CHOOSE x \in S : \A y \in S : x <= y

job_exists(J, j) == j \in Jids /\ J[j].state # "UNDEF"

job_from_pid(J, p) ==
    IF \E j \in Live(J) : J[j].pid = p
    THEN Min({j \in Live(J) : J[j].pid = p})
    ELSE 0

job_get_pid(J, j) == IF job_exists(J, j) THEN J[j].pid ELSE 0

fg_job(J) ==
    IF \E j \in Live(J) : J[j].state = "FG"
    THEN Min({j \in Live(J) : J[j].state = "FG"})
    ELSE 0

\* add_job succeeds when the pid is a process id and a slot is free.
AddOk(J, p) == p >= 1 /\ Live(J) # Jids

add_job(J, p, st) ==
    IF AddOk(J, p)
    THEN [J EXCEPT ![Min(Jids \ Live(J))] = [pid |-> p, state |-> st]]
    ELSE J

delete_job(J, j) == IF job_exists(J, j) THEN [J EXCEPT ![j] = EmptyJob] ELSE J

job_set_state(J, j, st) ==
    IF job_exists(J, j) THEN [J EXCEPT ![j].state = st] ELSE J

\* The state recorded for process p, "UNDEF" when it has no job.
StateOfPid(J, p) ==
    IF job_from_pid(J, p) = 0 THEN "UNDEF" ELSE J[job_from_pid(J, p)].state

NumFg(J) == Cardinality({j \in Live(J) : J[j].state = "FG"})

----------------------------------------------------------------------------
\* Child processes.
\*   none   no such process: not forked yet, or reaped (its pid is free again)
\*   pre    forked, still in the shell's process group (lines 205-238)
\*   run    setpgid(0, 0) done, running (lines 239-240 and the program)
\*   stopU  stopped, the stop not yet reported by waitpid
\*   stopR  stopped, the stop reported
\*   zomb   terminated (exited, or killed by a signal), not reaped
ChildStates == {"none", "pre", "run", "stopU", "stopR", "zomb"}

\* What waitpid(-1, &status, WNOHANG | WUNTRACED) can report (line 394).
WaitOptions == {"WNOHANG", "WUNTRACED"}

Waitable(ch) ==
    {p \in Pids : \/ ch[p] = "zomb"
                  \/ ch[p] = "stopU" /\ "WUNTRACED" \in WaitOptions}

\* The statuses waitpid can report for a child (WIFSTOPPED, WIFSIGNALED,
\* WIFEXITED; WIFCONTINUED only under WCONTINUED), and the child once it is
\* reported.  How a terminated child ended is read off its status only, so it
\* is chosen when the status is read.
StatusOf(st) ==
    CASE st = "zomb" -> {"exited", "signaled"}
      [] st = "stopU" -> {"stopped"}
      [] OTHER -> {}

Reported(st) == IF st = "stopU" THEN "stopR" ELSE "none"

\* The processes kill(target, sig) reaches: a negative target names the
\* process group -target, whose only member is the child that made it with
\* setpgid(0, 0); a positive target names one process.
Reached(ch, target) ==
    IF target < 0
    THEN {p \in Pids : p = -target /\ ch[p] \in {"run", "stopU", "stopR", "zomb"}}
    ELSE {p \in Pids : p = target /\ ch[p] # "none"}

\* The default action of a signal on a process.
SignalEffect(st, sig) ==
    CASE sig = "SIGCONT" /\ st \in {"stopU", "stopR"} -> "run"
      [] sig = "SIGINT" /\ st \in {"pre", "run"} -> "zomb"
      [] sig = "SIGTSTP" /\ st \in {"pre", "run"} -> "stopU"
      [] OTHER -> st

Kill(ch, target, sig) ==
    [p \in Pids |-> IF p \in Reached(ch, target) THEN SignalEffect(ch[p], sig) ELSE ch[p]]

\* A child whose state changed raises SIGCHLD in its parent.
Notify(ch, ch2, pend) ==
    IF \E p \in Pids : ch2[p] # ch[p] THEN pend \cup {"SIGCHLD"} ELSE pend

----------------------------------------------------------------------------
NoKill == [by |-> "none", target |-> 0, sig |-> "none"]

\* The redirections of the commands are followed apart from the job control.
LaunchIdle ==
    /\ cpc = "idle"
    /\ builtin = "BUILTIN_NONE"
    /\ infile = [name |-> "NULL", errno |-> 0]
    /\ outfile = [name |-> "NULL", errno |-> 0]
    /\ exe = 0
    /\ msgs = <<>>
    /\ created = {}

ShellInit ==
    /\ pc = "prompt"
    /\ pid = 0
    /\ prev_all = {}
    /\ saved = {}
    /\ mask = {}
    /\ pending = {}
    /\ jobs = [j \in Jids |-> EmptyJob]
    /\ child = [p \in Pids |-> "none"]
    /\ hstack = <<>>
    /\ raced = FALSE
    /\ lastKill = NoKill

Init == ShellInit /\ LaunchIdle

\* The main line runs when no handler frame is above it.
MainRuns == hstack = <<>>

Depth == Len(hstack)

Top == hstack[Depth]

----------------------------------------------------------------------------
\* Signal masks.

\* sigprocmask(SIG_BLOCK, &mask_all, ...) in eval (lines 203, 262, 276, 300, 337).
EvalBlockMask_none(m) == m

EvalBlockMask(m) == m \cup AllSigs

\* sigprocmask(SIG_BLOCK, &mask_all, &prev_all) in a handler (lines 396, 427, 449).
HandlerBlockMask_none(m) == m

HandlerBlockMask(m) == m \cup AllSigs

\* sigprocmask(SIG_SETMASK, &prev_all, NULL) in eval, under mask m (lines 258,
\* 265, 297, 303, 309, 317, 327, 334 and 340-373).
EvalRestoreMask_keep(m, prev) == m

EvalRestoreMask(m, prev) == prev

\* sigprocmask(SIG_SETMASK, &prev_all, NULL) in a handler, where prev_all is
\* the mask its own SIG_BLOCK replaced (lines 411, 434, 457).
HandlerRestoreMask(m, prev) == prev

\* A job-table access made under mask m is unprotected when a signal is unblocked.
Unprotected(m) == m # AllSigs

----------------------------------------------------------------------------
\* eval: an external command (lines 202-269).

\* parse_result is PARSELINE_FG or PARSELINE_BG; eval blocks all signals
\* before fork (line 203).
Launch(kind) ==
    /\ MainRuns
    /\ pc = "prompt"
    /\ \E p \in Pids : child[p] = "none"
    /\ prev_all' = mask
    /\ mask' = EvalBlockMask(mask)
    /\ pc' = IF kind = "FG" THEN "fork_fg" ELSE "fork_bg"
    /\ lastKill' = NoKill
    /\ UNCHANGED <<pid, saved, pending, jobs, child, hstack, raced>>
    /\ UNCHANGED lvars

\* Where eval goes after fork in the parent (lines 252, 261).
AfterFork(at) == IF at = "fork_fg" THEN "add_fg" ELSE "add_bg"

\* fork() returns the new child's pid in the parent (line 204).
ForkOk ==
    /\ MainRuns
    /\ pc \in {"fork_fg", "fork_bg"}
    /\ LET p == Min({q \in Pids : child[q] = "none"}) IN
         /\ child' = [child EXCEPT ![p] = "pre"]
         /\ pid' = p
    /\ pc' = AfterFork(pc)
    /\ lastKill' = NoKill
    /\ UNCHANGED <<prev_all, saved, mask, pending, jobs, hstack, raced>>
    /\ UNCHANGED lvars

\* fork() fails and returns -1; eval does not test for it (line 204).
ForkFail ==
    /\ MainRuns
    /\ pc \in {"fork_fg", "fork_bg"}
    /\ pid' = -1
    /\ pc' = AfterFork(pc)
    /\ lastKill' = NoKill
    /\ UNCHANGED <<prev_all, saved, mask, pending, jobs, child, hstack, raced>>
    /\ UNCHANGED lvars

\* Foreground: add_job(pid, FG, cmdline) (line 253).
AddFg ==
    /\ MainRuns
    /\ pc = "add_fg"
    /\ jobs' = add_job(jobs, pid, "FG")
    /\ raced' = (raced \/ Unprotected(mask))
    /\ pc' = "check"
    /\ lastKill' = NoKill
    /\ UNCHANGED <<pid, prev_all, saved, mask, pending, child, hstack>>
    /\ UNCHANGED lvars

\* The condition of the wait loops (lines 254 and 370).
FgWaitCond_never(J, p) == FALSE

FgWaitCond(J, p) == fg_job(J) # 0 /\ p = job_get_pid(J, fg_job(J))

\* The loop test of a wait loop and the sigsuspend inside it.
Suspended(at) == IF at = "check" THEN "suspend" ELSE "fgb_suspend"

\* The loop condition holds: sigsuspend(&prev_all) installs prev_all and
\* sleeps, in one step (lines 254-256 and 370-371).
FgSuspend ==
    /\ MainRuns
    /\ pc \in {"check", "fgb_check"}
    /\ FgWaitCond(jobs, pid)
    /\ raced' = (raced \/ Unprotected(mask))
    /\ saved' = mask
    /\ mask' = prev_all
    /\ pc' = Suspended(pc)
    /\ lastKill' = NoKill
    /\ UNCHANGED <<pid, prev_all, pending, jobs, child, hstack>>
    /\ UNCHANGED lvars

\* The loop condition fails: restore the mask and return (lines 258 and 373).
FgReturn ==
    /\ MainRuns
    /\ pc \in {"check", "fgb_check"}
    /\ ~FgWaitCond(jobs, pid)
    /\ raced' = (raced \/ Unprotected(mask))
    /\ mask' = EvalRestoreMask(mask, prev_all)
    /\ pid' = 0
    /\ pc' = "prompt"
    /\ lastKill' = NoKill
    /\ UNCHANGED <<prev_all, saved, pending, jobs, child, hstack>>
    /\ UNCHANGED lvars

\* Background: block, add_job(pid, BG, cmdline) (lines 261-263).
AddBg ==
    /\ MainRuns
    /\ pc = "add_bg"
    /\ jobs' = add_job(jobs, pid, "BG")
    /\ raced' = (raced \/ Unprotected(EvalBlockMask(mask)))
    /\ mask' = EvalBlockMask(mask)
    /\ pc' = "bg_print"
    /\ lastKill' = NoKill
    /\ UNCHANGED <<pid, prev_all, saved, pending, child, hstack>>
    /\ UNCHANGED lvars

\* jid = job_from_pid(pid), restore the mask, print "[jid] (pid) cmdline",
\* return (lines 264-268).
BgPrint ==
    /\ MainRuns
    /\ pc = "bg_print"
    /\ raced' = (raced \/ Unprotected(mask))
    /\ mask' = EvalRestoreMask(mask, prev_all)
    /\ pid' = 0
    /\ pc' = "prompt"
    /\ lastKill' = NoKill
    /\ UNCHANGED <<prev_all, saved, pending, jobs, child, hstack>>
    /\ UNCHANGED lvars

----------------------------------------------------------------------------
\* eval: the built-in commands bg and fg (lines 299-374).

\* The argument of bg and fg: absent, neither a number nor %number, %n or n.
Args ==
    [kind : {"none", "bad"}, n : {0}] \cup [kind : {"jid", "pid"}, n : 0..MaxPid]

\* The jid and pid an argument names (lines 312-330 and 349-367).
ArgJid(J, a) == IF a.kind = "jid" THEN a.n ELSE job_from_pid(J, a.n)

ArgPid(J, a) == IF a.kind = "jid" THEN job_get_pid(J, a.n) ELSE a.n

\* The error an argument is rejected with, "ok" when it names a live job.
ArgError_lax(J, a) ==
    CASE a.kind = "none" -> "err_noarg"
      [] a.kind = "bad" -> "err_badarg"
      [] OTHER -> "ok"

ArgError(J, a) ==
    CASE a.kind = "none" -> "err_noarg"
      [] a.kind = "bad" -> "err_badarg"
      [] ~job_exists(J, ArgJid(J, a)) -> "err_nosuch"
      [] OTHER -> "ok"

\* bg or fg with a bad argument: block, report the error, restore the mask,
\* return; no kill() is made (lines 300-329 and 337-366).
BuiltinError(which, a) ==
    /\ MainRuns
    /\ pc = "prompt"
    /\ ArgError(jobs, a) # "ok"
    /\ raced' = (raced \/ (a.kind \in {"jid", "pid"} /\ Unprotected(EvalBlockMask(mask))))
    /\ prev_all' = mask
    /\ mask' = EvalRestoreMask(EvalBlockMask(mask), prev_all')
    /\ lastKill' = [by |-> which, target |-> 0, sig |-> "none"]
    /\ UNCHANGED <<pc, pid, saved, pending, jobs, child, hstack>>
    /\ UNCHANGED lvars

\* A command line that is empty or does not parse: eval returns before it
\* touches the mask (lines 194-198).
ParseReturn ==
    /\ MainRuns
    /\ pc = "prompt"
    /\ lastKill' = NoKill
    /\ UNCHANGED <<pc, pid, prev_all, saved, mask, pending, jobs, child, hstack, raced>>
    /\ UNCHANGED lvars

\* jobs: list_jobs under the blocked mask (lines 275-298).
JobsCmd ==
    /\ MainRuns
    /\ pc = "prompt"
    /\ raced' = (raced \/ Unprotected(EvalBlockMask(mask)))
    /\ prev_all' = mask
    /\ mask' = EvalRestoreMask(EvalBlockMask(mask), prev_all')
    /\ lastKill' = NoKill
    /\ UNCHANGED <<pc, pid, saved, pending, jobs, child, hstack>>
    /\ UNCHANGED lvars

\* The target kill() is called with for a job of process p (lines 332, 368,
\* 432, 455): the negated pid, the job's process group.
GroupOf_leader(p) == p

GroupOf(p) == -p

\* The state bg gives the job (line 333).
BgTargetState_fg == "FG"

BgTargetState == "BG"

\* bg on a live job (lines 300, 331-334).
BgCmd(a) ==
    /\ MainRuns
    /\ pc = "prompt"
    /\ ArgError(jobs, a) = "ok"
    /\ child' = Kill(child, GroupOf(ArgPid(jobs, a)), "SIGCONT")
    /\ pending' = Notify(child, child', pending)
    /\ lastKill' = [by |-> "bg", target |-> GroupOf(ArgPid(jobs, a)), sig |-> "SIGCONT"]
    /\ jobs' = job_set_state(jobs, ArgJid(jobs, a), BgTargetState)
    /\ raced' = (raced \/ Unprotected(EvalBlockMask(mask)))
    /\ prev_all' = mask
    /\ mask' = EvalRestoreMask(EvalBlockMask(mask), prev_all')
    /\ UNCHANGED <<pc, pid, saved, hstack>>
    /\ UNCHANGED lvars

\* The state fg gives the job (line 369).
FgTargetState_bg == "BG"

FgTargetState == "FG"

\* fg on a live job, up to the wait loop (lines 337, 368-369).
FgCmd(a) ==
    /\ MainRuns
    /\ pc = "prompt"
    /\ ArgError(jobs, a) = "ok"
    /\ pid' = ArgPid(jobs, a)
    /\ child' = Kill(child, GroupOf(pid'), "SIGCONT")
    /\ pending' = Notify(child, child', pending)
    /\ lastKill' = [by |-> "fg", target |-> GroupOf(pid'), sig |-> "SIGCONT"]
    /\ jobs' = job_set_state(jobs, ArgJid(jobs, a), FgTargetState)
    /\ raced' = (raced \/ Unprotected(EvalBlockMask(mask)))
    /\ prev_all' = mask
    /\ mask' = EvalBlockMask(mask)
    /\ pc' = "fgb_check"
    /\ UNCHANGED <<saved, hstack>>
    /\ UNCHANGED lvars

----------------------------------------------------------------------------
\* The children and the terminal.

ShellSame ==
    UNCHANGED <<pc, pid, prev_all, saved, mask, jobs, hstack, raced, lvars>>

\* The child leaves the shell's group and execs (lines 238-240).
ChildSetpgid(p) ==
    /\ child[p] = "pre"
    /\ child' = [child EXCEPT ![p] = "run"]
    /\ lastKill' = NoKill
    /\ UNCHANGED pending
    /\ ShellSame

\* The child exits: a failed redirection or execve (lines 218, 235, 247), or
\* the end of its program.
ChildExit(p) ==
    /\ child[p] \in {"pre", "run"}
    /\ child' = [child EXCEPT ![p] = "zomb"]
    /\ pending' = pending \cup {"SIGCHLD"}
    /\ lastKill' = NoKill
    /\ ShellSame

\* The child is killed by a signal that did not come from the shell.
ChildKilled(p) ==
    /\ child[p] \in {"run", "stopU", "stopR"}
    /\ child' = [child EXCEPT ![p] = "zomb"]
    /\ pending' = pending \cup {"SIGCHLD"}
    /\ lastKill' = NoKill
    /\ ShellSame

\* The child is stopped by a signal from outside the shell.
ChildStop(p) ==
    /\ child[p] = "run"
    /\ child' = [child EXCEPT ![p] = "stopU"]
    /\ pending' = pending \cup {"SIGCHLD"}
    /\ lastKill' = NoKill
    /\ ShellSame

\* The child is continued by a SIGCONT from outside the shell.
ExternalCont(p) ==
    /\ child[p] \in {"stopU", "stopR"}
    /\ child' = [child EXCEPT ![p] = "run"]
    /\ pending' = pending \cup {"SIGCHLD"}
    /\ lastKill' = NoKill
    /\ ShellSame

\* The terminal sends SIGINT (ctrl-c) or SIGTSTP (ctrl-z) to the shell.
TermSig(s) ==
    /\ s \notin pending
    /\ pending' = pending \cup {s}
    /\ lastKill' = NoKill
    /\ UNCHANGED child
    /\ ShellSame

\* A running child sends SIGTSTP to its parent, the shell (mytstpp, line 23).
ChildKillParent(p) ==
    /\ child[p] = "run"
    /\ "SIGTSTP" \notin pending
    /\ pending' = pending \cup {"SIGTSTP"}
    /\ lastKill' = NoKill
    /\ UNCHANGED child
    /\ ShellSame

----------------------------------------------------------------------------
\* Signal delivery and the handlers (lines 386-459).

\* Where the main line resumes when a handler has run during sigsuspend: the
\* loop test (lines 254-257 and 370-372).
WakeTarget_lost(at) == at

WakeTarget(at) == IF at = "suspend" THEN "check" ELSE "fgb_check"

\* The signals blocked while the handler of s runs, beside the mask of the
\* interrupted context: Signal() installs a handler with an empty sa_mask, so
\* s alone (main, lines 126-128).
HandlerEntryMask(s) == {s}

Frame(ret) == [pc |-> "entry", pid |-> 0, status |-> "none", ret |-> ret]

\* The main line is asleep in sigsuspend.
Asleep == MainRuns /\ pc \in {"suspend", "fgb_suspend"}

\* A pending SIGCHLD the mask lets through interrupts the running context.
\* sigchld_handler runs with SIGCHLD blocked too and returns to the mask of the
\* context it interrupted: for a main line asleep in sigsuspend, the mask
\* sigsuspend replaced.
DeliverChld ==
    /\ "SIGCHLD" \in pending
    /\ "SIGCHLD" \notin mask
    /\ hstack' = Append(hstack, Frame(IF Asleep THEN saved ELSE mask))
    /\ pc' = IF Asleep THEN WakeTarget(pc) ELSE pc
    /\ mask' = mask \cup HandlerEntryMask("SIGCHLD")
    /\ pending' = pending \ {"SIGCHLD"}
    /\ lastKill' = NoKill
    /\ UNCHANGED <<pid, prev_all, saved, jobs, child, raced>>
    /\ UNCHANGED lvars

Pop == SubSeq(hstack, 1, Depth - 1)

InHandler(at) == Depth > 0 /\ Top.pc \in at

\* waitpid(-1, &status, WNOHANG | WUNTRACED) returns child p (line 394).
ChldWait(p, st) ==
    /\ InHandler({"entry"})
    /\ p \in Waitable(child)
    /\ st \in StatusOf(child[p])
    /\ hstack' = [hstack EXCEPT ![Depth].pc = "body", ![Depth].pid = p,
                                ![Depth].status = st]
    /\ child' = [child EXCEPT ![p] = Reported(child[p])]
    /\ lastKill' = NoKill
    /\ UNCHANGED <<pc, pid, prev_all, saved, mask, pending, jobs, raced>>
    /\ UNCHANGED lvars

\* What the handler does to the job of a reaped child (lines 397-410).
ChldApply_delete(J, j, status) == delete_job(J, j)

ChldApply(J, j, status) ==
    CASE status = "stopped" -> job_set_state(J, j, "ST")
      [] status = "signaled" -> delete_job(J, j)
      [] status = "continued" -> job_set_state(J, j, "FG")
      [] OTHER -> delete_job(J, j)

\* Where the handler goes after one child: back to waitpid (lines 394, 412).
ChldLoopNext_once == "ret"

ChldLoopNext == "entry"

\* The loop body: block, update the job of the reaped child, restore the mask
\* (lines 396-411).
ChldBody ==
    /\ InHandler({"body"})
    /\ jobs' = ChldApply(jobs, job_from_pid(jobs, Top.pid), Top.status)
    /\ raced' = (raced \/ Unprotected(HandlerBlockMask(mask)))
    /\ mask' = HandlerRestoreMask(HandlerBlockMask(mask), mask)
    /\ hstack' = [hstack EXCEPT ![Depth].pc = ChldLoopNext, ![Depth].pid = 0,
                                ![Depth].status = "none"]
    /\ lastKill' = NoKill
    /\ UNCHANGED <<pc, pid, prev_all, saved, pending, child>>
    /\ UNCHANGED lvars

\* waitpid finds no child to report; WNOHANG makes it return at once, and the
\* handler returns (lines 394, 413-414).
ChldDone ==
    /\ \/ InHandler({"ret"})
       \/ /\ InHandler({"entry"})
          /\ Waitable(child) = {}
          /\ \/ "WNOHANG" \in WaitOptions
             \/ \A p \in Pids : child[p] = "none"
    /\ hstack' = Pop
    /\ mask' = Top.ret
    /\ lastKill' = NoKill
    /\ UNCHANGED <<pc, pid, prev_all, saved, pending, jobs, child, raced>>
    /\ UNCHANGED lvars

\* sigint_handler and sigtstp_handler, from delivery to return: block, forward
\* the signal to the group of the foreground job if there is one, restore the
\* mask (lines 420-459).  Outside its blocked window the handler only saves
\* and restores errno, so it is one step for every other context.  It returns
\* to the context it interrupted, and wakes a main line asleep in sigsuspend.
Forward(s) ==
    /\ s \in pending
    /\ s \notin mask
    /\ LET j == fg_job(jobs)
           p == job_get_pid(jobs, j)
       IN  IF j # 0
           THEN /\ child' = Kill(child, GroupOf(p), s)
                /\ lastKill' = [by |-> s, target |-> GroupOf(p), sig |-> s]
           ELSE /\ child' = child
                /\ lastKill' = NoKill
    /\ pending' = Notify(child, child', pending \ {s})
    /\ raced' = (raced \/ Unprotected(HandlerBlockMask(mask \cup HandlerEntryMask(s))))
    /\ pc' = IF Asleep THEN WakeTarget(pc) ELSE pc
    /\ mask' = IF Asleep THEN saved ELSE mask
    /\ UNCHANGED <<pid, prev_all, saved, jobs, hstack>>
    /\ UNCHANGED lvars

----------------------------------------------------------------------------
Next ==
    \/ \E kind \in {"FG", "BG"} : Launch(kind)
    \/ ForkOk
    \/ ForkFail
    \/ AddFg
    \/ FgSuspend
    \/ FgReturn
    \/ AddBg
    \/ BgPrint
    \/ ParseReturn
    \/ JobsCmd
    \/ \E which \in {"bg", "fg"} : \E a \in Args : BuiltinError(which, a)
    \/ \E a \in Args : BgCmd(a)
    \/ \E a \in Args : FgCmd(a)
    \/ \E p \in Pids : ChildSetpgid(p)
    \/ \E p \in Pids : ChildExit(p)
    \/ \E p \in Pids : ChildKilled(p)
    \/ \E p \in Pids : ChildStop(p)
    \/ \E p \in Pids : ExternalCont(p)
    \/ \E s \in {"SIGINT", "SIGTSTP"} : TermSig(s)
    \/ \E p \in Pids : ChildKillParent(p)
    \/ DeliverChld
    \/ \E p \in Pids : \E st \in {"stopped", "signaled", "exited"} : ChldWait(p, st)
    \/ ChldBody
    \/ ChldDone
    \/ \E s \in {"SIGINT", "SIGTSTP"} : Forward(s)

Spec == Init /\ [][Next]_vars

\* The steps of the shell that need no new input: eval between reading a
\* command and returning, and a handler between delivery and return.
EvalStep == ForkOk \/ ForkFail \/ AddFg \/ FgSuspend \/ FgReturn \/ AddBg \/ BgPrint

HandlerStep ==
    \/ \E p \in Pids : \E st \in {"stopped", "signaled", "exited"} : ChldWait(p, st)
    \/ ChldBody
    \/ ChldDone

\* The system without continues from outside the shell: a child stopped and
\* continued without end would keep sigchld_handler's loop busy for ever.
LiveNext ==
    \/ \E kind \in {"FG", "BG"} : Launch(kind)
    \/ EvalStep
    \/ ParseReturn
    \/ JobsCmd
    \/ \E which \in {"bg", "fg"} : \E a \in Args : BuiltinError(which, a)
    \/ \E a \in Args : BgCmd(a)
    \/ \E a \in Args : FgCmd(a)
    \/ \E p \in Pids : ChildSetpgid(p)
    \/ \E p \in Pids : ChildExit(p)
    \/ \E p \in Pids : ChildKilled(p)
    \/ \E p \in Pids : ChildStop(p)
    \/ \E s \in {"SIGINT", "SIGTSTP"} : TermSig(s)
    \/ \E p \in Pids : ChildKillParent(p)
    \/ DeliverChld
    \/ HandlerStep
    \/ \E s \in {"SIGINT", "SIGTSTP"} : Forward(s)

\* The shell process is scheduled: eval and a running handler take their next
\* step, and a SIGCHLD that is pending and again and again unblocked is
\* delivered.
LiveSpec ==
    /\ Init
    /\ [][LiveNext]_vars
    /\ WF_vars(EvalStep)
    /\ WF_vars(HandlerStep)
    /\ SF_vars(DeliverChld)

----------------------------------------------------------------------------
\* One command's redirections and program: the child of an external command
\* from fork to execve (lines 205-248), and jobs with an output file (lines
\* 275-298).  In the job-control model above the child's path is the step from
\* "pre" to "run" (ChildSetpgid) or to "zomb" (ChildExit).

\* The errno values the code tests for (lines 212, 215).
ENOENT == 2

EACCES == 13

\* Errno values open() and execve() can leave that the code does not test for:
\* EMFILE (no file descriptor left), ENOEXEC (not an executable format).
EMFILE == 24

ENOEXEC == 8

OpenErrnos == {ENOENT, EACCES, EMFILE}

\* A file name of the command line: absent, or a name and what open() does
\* with it (errno 0: it returns a descriptor).
NoFile == [name |-> "NULL", errno |-> 0]

Files == {NoFile} \cup [name : {"file"}, errno : {0} \cup OpenErrnos]

ExecErrnos == {ENOENT, EACCES, ENOEXEC}

\* #define MODE S_IRUSR | S_IWUSR | S_IRGRP | S_IROTH (line 55).
MODE_rw_all == {"S_IRUSR", "S_IWUSR", "S_IRGRP", "S_IWGRP", "S_IROTH", "S_IWOTH"}

MODE == {"S_IRUSR", "S_IWUSR", "S_IRGRP", "S_IROTH"}

\* What the code prints for a failed open() or execve() of file `name`
\* (lines 212-217, 229-234, 241-246, 285-290): a line for errno 2 and for
\* errno 13, nothing for any other errno.
Diagnostic(errno, name) ==
    IF errno = ENOENT
    THEN <<[file |-> name, text |-> "No such file or directory"]>>
    ELSE IF errno = EACCES
         THEN <<[file |-> name, text |-> "Permission denied"]>>
         ELSE <<>>

LaunchInit ==
    /\ ShellInit
    /\ builtin \in {"BUILTIN_NONE", "BUILTIN_JOBS"}
    /\ cpc = IF builtin = "BUILTIN_NONE" THEN "infile" ELSE "jobs"
    /\ infile \in IF builtin = "BUILTIN_NONE" THEN Files ELSE {NoFile}
    /\ outfile \in Files
    /\ exe \in IF builtin = "BUILTIN_NONE" THEN {0} \cup ExecErrnos ELSE {0}
    /\ msgs = <<>>
    /\ created = {}

\* The child: input redirection (lines 206-220).
ChildOpenInfile ==
    /\ cpc = "infile"
    /\ IF infile.errno = 0
       THEN /\ cpc' = "outfile"
            /\ msgs' = msgs
       ELSE /\ msgs' = msgs \o Diagnostic(infile.errno, "infile")
            /\ cpc' = "exited"
    /\ UNCHANGED <<builtin, infile, outfile, exe, created>>
    /\ UNCHANGED svars

\* The child: output redirection (lines 222-237).
ChildOpenOutfile ==
    /\ cpc = "outfile"
    /\ created' = IF outfile.name = "NULL" THEN created ELSE created \cup {MODE}
    /\ IF outfile.errno = 0
       THEN /\ cpc' = "setpgid"
            /\ msgs' = msgs
       ELSE /\ msgs' = msgs \o Diagnostic(outfile.errno, "outfile")
            /\ cpc' = "exited"
    /\ UNCHANGED <<builtin, infile, outfile, exe>>
    /\ UNCHANGED svars

\* The child: unblock the signals, setpgid(0, 0) (lines 238-239).
ChildUnblock ==
    /\ cpc = "setpgid"
    /\ cpc' = "execve"
    /\ UNCHANGED <<builtin, infile, outfile, exe, msgs, created>>
    /\ UNCHANGED svars

\* The child: execve; when it fails, print and _exit(0) (lines 240-248).
ChildExecve ==
    /\ cpc = "execve"
    /\ IF exe = 0
       THEN /\ cpc' = "program"
            /\ msgs' = msgs
       ELSE /\ msgs' = msgs \o Diagnostic(exe, "argv0")
            /\ cpc' = "exited"
    /\ UNCHANGED <<builtin, infile, outfile, exe, created>>
    /\ UNCHANGED svars

\* jobs: list the jobs on the output file or on stdout; list_jobs can fail
\* (lines 275-298).
JobsList(listed) ==
    /\ cpc = "jobs"
    /\ created' = IF outfile.name = "NULL" THEN created ELSE created \cup {MODE}
    /\ msgs' = IF outfile.errno = 0
               THEN IF listed
                    THEN msgs
                    ELSE msgs \o <<[file |-> "none", text |-> "Fails to write into job list."]>>
               ELSE msgs \o Diagnostic(outfile.errno, "outfile")
    /\ cpc' = "returned"
    /\ UNCHANGED <<builtin, infile, outfile, exe>>
    /\ UNCHANGED svars

\* The next command line.
NextCommand ==
    /\ cpc \in {"exited", "program", "returned"}
    /\ builtin' \in {"BUILTIN_NONE", "BUILTIN_JOBS"}
    /\ cpc' = IF builtin' = "BUILTIN_NONE" THEN "infile" ELSE "jobs"
    /\ infile' \in IF builtin' = "BUILTIN_NONE" THEN Files ELSE {NoFile}
    /\ outfile' \in Files
    /\ exe' \in IF builtin' = "BUILTIN_NONE" THEN {0} \cup ExecErrnos ELSE {0}
    /\ msgs' = <<>>
    /\ created' = {}
    /\ UNCHANGED svars

LaunchNext ==
    \/ ChildOpenInfile
    \/ ChildOpenOutfile
    \/ ChildUnblock
    \/ ChildExecve
    \/ \E listed \in BOOLEAN : JobsList(listed)
    \/ NextCommand

LaunchSpec == LaunchInit /\ [][LaunchNext]_vars

----------------------------------------------------------------------------
\* The claims.

\* C1: in every reachable state at most one job of the table is in state
\* Foreground.
C1_AtMostOneForeground == NumFg(jobs) <= 1

\* A foreground job beside another job, while sigchld_handler is running.
C1_Witness ==
    /\ NumFg(jobs) = 1
    /\ Cardinality(Live(jobs)) = 2
    /\ InHandler({"body"})

\* The positions of eval between two job-table accesses of one blocked window.
InsideWindow == {"add_fg", "add_bg", "bg_print"}

\* C2: every job-table access, by eval or by a handler, is made with all
\* signals blocked, and no handler runs inside a window of main-line accesses.
C2_TableAccessBlocked ==
    /\ ~raced
    /\ pc \in InsideWindow => hstack = <<>> /\ mask = AllSigs
    /\ MainRuns /\ pc \in {"check", "fgb_check"} => mask = AllSigs

\* A job eval added has been marked Stopped by the handler, and eval is about
\* to read the table again.
C2_Witness ==
    /\ MainRuns
    /\ pc = "check"
    /\ \E j \in Jids : jobs[j].state = "ST"

C4_FgWaitsForJob ==
    [][/\ pc = "prompt" /\ pc' = "fgb_check" => StateOfPid(jobs', pid') = "FG"
       /\ pc = "fgb_check" /\ pc' = "prompt" =>
              StateOfPid(jobs, pid) \in {"UNDEF", "ST"}]_vars

\* The fg wait loop is about to end because the handler marked the job Stopped.
C4_Witness ==
    /\ MainRuns
    /\ pc = "fgb_check"
    /\ StateOfPid(jobs, pid) = "ST"

\* The main line is in a wait loop for child pid (lines 254-257, 370-372).
InWait == pc \in {"check", "suspend", "fgb_check", "fgb_suspend"} /\ pid >= 1

\* C5: no lost wakeup.  If the child a wait loop waits for has stopped or
\* terminated, whether the loop is at its test or asleep in sigsuspend, then
\* eval eventually returns to the prompt.
C5_NoLostWakeup ==
    (InWait /\ child[pid] \in {"zomb", "stopU"}) ~> (pc = "prompt")

\* The child terminated while the main line was already asleep.
C5_Witness ==
    /\ pc \in {"suspend", "fgb_suspend"}
    /\ pid >= 1
    /\ child[pid] = "zomb"
    /\ StateOfPid(jobs, pid) = "FG"

\* C6: one run of sigchld_handler takes every status change there is, however
\* many one SIGCHLD stands for: a child with an unread status is always covered
\* by a pending SIGCHLD or by a handler that is still to call waitpid again;
\* outside the loop body every child whose status was read has its job removed
\* or marked Stopped; and waitpid never makes the handler wait.
C6_ReapsAllPending ==
    /\ Waitable(child) # {} => ("SIGCHLD" \in pending \/ InHandler({"entry", "body"}))
    /\ \A p \in Pids :
          \/ (InHandler({"body"}) /\ Top.pid = p)
          \/ (pc \in {"add_fg", "add_bg"} /\ pid = p)
          \/ /\ child[p] = "none" => StateOfPid(jobs, p) = "UNDEF"
             /\ child[p] = "stopR" => StateOfPid(jobs, p) \in {"ST", "UNDEF"}
    /\ InHandler({"entry"}) => ENABLED HandlerStep

\* One SIGCHLD stood for two children: the handler has read the status of one,
\* the other is still to be read and no SIGCHLD is pending.
C6_Witness ==
    /\ InHandler({"body"})
    /\ Waitable(child) # {}
    /\ "SIGCHLD" \notin pending

\* C7: the loop body, for the child waitpid returned: a stopped child's job
\* stays in the table in state Stopped, a terminated child's job is removed,
\* and every other job is unchanged.
C7_BodyEffect ==
    [][InHandler({"body"}) /\ hstack'[Depth].pc # "body" =>
          LET p == Top.pid
              j == job_from_pid(jobs, p)
          IN  /\ \A k \in Jids \ {j} : jobs'[k] = jobs[k]
              /\ j # 0 /\ Top.status = "stopped" =>
                     jobs'[j] = [pid |-> p, state |-> "ST"]
              /\ j # 0 /\ Top.status \in {"exited", "signaled"} =>
                     ~job_exists(jobs', j)]_vars

\* The body has marked one job Stopped and left a second job as it was.
C7_Witness ==
    /\ InHandler({"entry"})
    /\ \E j, k \in Jids : jobs[j].state = "ST" /\ jobs[k].state = "BG"

\* C8: sigint_handler and sigtstp_handler.  With a foreground job the handler
\* sends its signal to the group of that job's pid, which stops a running
\* member on SIGTSTP, and to no other process; without one it sends nothing;
\* either way the job table is unchanged.
C8_ForwardToForeground ==
    [][\A s \in {"SIGINT", "SIGTSTP"} :
          s \in pending /\ s \notin pending' =>
             LET j == fg_job(jobs)
                 p == job_get_pid(jobs, j)
             IN  /\ jobs' = jobs
                 /\ j = 0 => lastKill' = NoKill /\ child' = child
                 /\ j # 0 =>
                      /\ lastKill' = [by |-> s, target |-> -p, sig |-> s]
                      /\ \A q \in Pids \ {p} : child'[q] = child[q]
                      /\ s = "SIGTSTP" /\ child[p] = "run" => child'[p] = "stopU"]_vars

\* SIGTSTP was forwarded to the group of the foreground job, whose process is
\* now stopped, while a second job is in the table.
C8_Witness ==
    /\ lastKill.by = "SIGTSTP"
    /\ lastKill.target < 0
    /\ child[-lastKill.target] = "stopU"
    /\ StateOfPid(jobs, -lastKill.target) = "FG"
    /\ Cardinality(Live(jobs)) = 2

\* C9 (as claimed): a background launch that add_job rejected for lack of a
\* free slot does not go on to print the background-job announcement.
C9_NoAnnouncementWhenFull ==
    pc = "bg_print" /\ pid >= 1 => job_from_pid(jobs, pid) # 0

\* C10 (as claimed): after a failed fork eval does not go on to add_job, to the
\* announcement or to the wait loop.
C10_ForkFailureStops ==
    pid = -1 => pc \notin {"add_fg", "add_bg", "bg_print", "check", "suspend"}

\* C11 (as claimed): a child that exits from a failed launch has printed a
\* diagnostic, whatever made open() or execve() fail.
C11_FailedLaunchReported ==
    cpc = "exited" => msgs # <<>>

C13_ContinuedObserved ==
    \A p \in Pids :
        child[p] = "run" /\ StateOfPid(jobs, p) = "ST" =>
            "SIGCHLD" \in pending \/ Depth > 0

\* C14 (as claimed): eval returns from the wait loop of a foreground launch
\* only when the child it forked has terminated or has been seen to stop.
C14_ForegroundLaunchWaits ==
    [][pc = "check" /\ pc' = "prompt" /\ pid >= 1 =>
          \/ child[pid] \notin {"pre", "run"}
          \/ StateOfPid(jobs, pid) = "ST"]_vars

\* C15: bg on a live job sends SIGCONT to the group of the job's pid, which
\* continues a stopped member, sets that job to Background, changes no other
\* job and returns to the prompt; fg on a live job sends SIGCONT to the group,
\* sets the job to Foreground and goes on to the wait loop for its pid.
C15_BgFgOnLiveJob ==
    [][lastKill'.by \in {"bg", "fg"} /\ lastKill'.sig # "none" =>
          \E j \in Live(jobs) :
              LET p == jobs[j].pid IN
              /\ lastKill'.target = -p
              /\ lastKill'.sig = "SIGCONT"
              /\ child[p] \in {"stopU", "stopR"} => child'[p] = "run"
              /\ \A q \in Pids \ {p} : child'[q] = child[q]
              /\ lastKill'.by = "bg" =>
                     /\ jobs' = [jobs EXCEPT ![j].state = "BG"]
                     /\ pc' = "prompt"
                     /\ mask' = mask
              /\ lastKill'.by = "fg" =>
                     /\ jobs' = [jobs EXCEPT ![j].state = "FG"]
                     /\ pc' = "fgb_check"
                     /\ pid' = p]_vars

\* bg has continued a stopped job, now Background and running, beside a second
\* job.
C15_Witness ==
    /\ lastKill.by = "bg"
    /\ lastKill.sig = "SIGCONT"
    /\ child[-lastKill.target] = "run"
    /\ "SIGCHLD" \in pending
    /\ StateOfPid(jobs, -lastKill.target) = "BG"
    /\ Cardinality(Live(jobs)) = 2

\* C16 (as claimed): every mode passed to open() with O_CREAT grants read and
\* write to the owner and nothing to group or others.
C16_OwnerOnlyMode ==
    \A m \in created : m \subseteq {"S_IRUSR", "S_IWUSR"}

\* C16 (amended): every mode passed to open() with O_CREAT grants read and
\* write to the owner and at most read to group and others: only the owner
\* may write the file, and nobody may execute it.
C16_OwnerWriteOnly ==
    \A m \in created :
        /\ {"S_IRUSR", "S_IWUSR"} \subseteq m
        /\ m \ {"S_IRUSR", "S_IWUSR"} \subseteq {"S_IRGRP", "S_IROTH"}

\* The child has created its output file and goes on to execve.
C16_Witness ==
    /\ cpc = "setpgid"
    /\ outfile.name = "file"
    /\ created # {}

\* C20: whenever the interpreter is at the prompt, on whatever path eval
\* returned, the mask of the main line is the one the shell started with, no
\* signal blocked; and while sigchld_handler runs outside its blocked window
\* the mask is the one it was entered with: SIGCHLD added to the mask of the
\* context it interrupted, which for a wait loop is the mask sigsuspend
\* installed.
C20_MaskRestored ==
    /\ pc = "prompt" => (IF MainRuns THEN mask ELSE hstack[1].ret) = {}
    /\ pc = "prompt" => prev_all = {}
    /\ Depth > 0 =>
          mask = (IF pc \in {"check", "fgb_check"} THEN prev_all ELSE Top.ret)
                     \cup {"SIGCHLD"}

\* eval has returned from a foreground wait whose job the handler removed, and
\* a background job is still in the table.
C20_Witness ==
    /\ MainRuns
    /\ pc = "prompt"
    /\ mask = {}
    /\ \E p \in Pids : child[p] = "none" /\ \E q \in Pids : q > p /\ child[q] # "none"
    /\ \E j \in Jids : jobs[j].state = "BG"

\* C18 (as claimed): a signal sigint_handler or sigtstp_handler forwards for
\* the foreground job reaches that job's process, also when the child has not
\* yet called setpgid(0, 0).
C18_ForwardReachesChild ==
    lastKill.by \in {"SIGINT", "SIGTSTP"} =>
        child[-lastKill.target] = "none" \/ -lastKill.target \in Reached(child, lastKill.target)

\* C19 (as claimed): the pid sigint_handler or sigtstp_handler takes from the
\* foreground job is that of a child not yet reaped.
C19_NoKillToReaped ==
    lastKill.by \in {"SIGINT", "SIGTSTP"} => child[-lastKill.target] # "none"

====
